---- MODULE Spec2Model ----
(***************************************************************************)
(* Market Radar 360: the per-domain ingestion scripts (scripts/fetch_*.py)  *)
(* and their helpers (scripts/utils.py) as one state machine.  A run is one *)
(* invocation of one domain's main(): construct the fetcher, fetch and      *)
(* normalise, aggregate, validate, write, exit.                             *)
(***************************************************************************)
EXTENDS Integers, Sequences, FiniteSets, TLC

VARIABLES
    domain,      \* which script's main() this run executes
    env,         \* process environment: credential, schema directory on disk
    pc,          \* position of main()
    io,          \* kinds of I/O performed so far in the run
    schemas,     \* DataValidator.schemas: registered name -> schema
    config,      \* what the fetcher kept from load_config("sources")
    files,       \* output artifacts on disk: path -> content
    fetched,     \* per-call results of the external fetches of the run
    data,        \* the document(s) returned by fetch_all
    cursor,      \* loop index of the running fetch / save loop
    saved,       \* record of the save step(s) of the run
    raisedBy,    \* the call an uncaught exception left main() from, or "none"
    exitCode,    \* process exit status once main() has ended, else -1
    call         \* a helper called on its own: function, arguments, result

vars == <<domain, env, pc, io, schemas, config, files, fetched, data, cursor,
          saved, raisedBy, exitCode, call>>

----------------------------------------------------------------------------
(* Bounds of the model *)

\* most raw records in one chamber's response
MaxRaw == 2

----------------------------------------------------------------------------
(* Text: Python str values that the code inspects character by character    *)
(* are sequences of one-character strings.                                  *)

Ascii ==
    <<" ", "$", "(", ")", ",", "-", ".", "/",
      "0", "1", "2", "3", "4", "5", "6", "7", "8", "9",
      "A", "B", "C", "D", "E", "F", "G", "H", "I", "J", "K", "L", "M",
      "N", "O", "P", "Q", "R", "S", "T", "U", "V", "W", "X", "Y", "Z",
      "a", "b", "c", "d", "e", "f", "g", "h", "i", "j", "k", "l", "m",
      "n", "o", "p", "q", "r", "s", "t", "u", "v", "w", "x", "y", "z">>

Code(c) == CHOOSE i \in 1..Len(Ascii) : Ascii[i] = c

IsUpper(c) == Code(c) >= Code("A") /\ Code(c) <= Code("Z")

IsLowerCh(c) == Code(c) >= Code("a") /\ Code(c) <= Code("z")

IsDigit(c) == Code(c) >= Code("0") /\ Code(c) <= Code("9")

IsSpace(c) == c = " "

\* str.isalnum() of one character
IsAlnum(c) == IsUpper(c) \/ IsLowerCh(c) \/ IsDigit(c)

LowerCh(c) == IF IsUpper(c) THEN Ascii[Code(c) + (Code("a") - Code("A"))] ELSE c

\* str.lower()
Lower(s) == [i \in 1..Len(s) |-> LowerCh(s[i])]

\* sub in s
Contains(sub, s) ==
    \E i \in 0..(Len(s) - Len(sub)) :
        \A j \in 1..Len(sub) : s[i + j] = sub[j]

\* a < b for Python str (lexicographic by code point)
StrLess(a, b) ==
    \/ /\ Len(a) < Len(b)
       /\ \A i \in 1..Len(a) : a[i] = b[i]
    \/ \E i \in 1..Len(a) :
          /\ i <= Len(b)
          /\ \A j \in 1..(i - 1) : a[j] = b[j]
          /\ Code(a[i]) < Code(b[i])

----------------------------------------------------------------------------
(* JSON values as the scripts see them after response.json() / json.load(). *)
(* A value is [t, v]: t its Python type, v its text (str, number) or its    *)
(* items (dict).                                                            *)

Str(s) == [t |-> "str", v |-> s]

Num(s) == [t |-> "num", v |-> s]

Null == [t |-> "null", v |-> <<>>]

Obj(f) == [t |-> "obj", v |-> f]

IsDict(x) == x.t = "obj"

\* a lookup that hands a stored null to the caller
safe_get_KeepsNull(d, key, default) ==
    IF IsDict(d)
    THEN (IF key \in DOMAIN d.v THEN d.v[key] ELSE default)
    ELSE default

\* utils.safe_get with one key
safe_get(d, key, default) ==
    LET got == IF IsDict(d)
               THEN (IF key \in DOMAIN d.v THEN d.v[key] ELSE default)
               ELSE default
    IN  IF got.t = "null" THEN default ELSE got

----------------------------------------------------------------------------
(* The environment of a run *)

Domains == {"congress", "macro", "fund_13f", "insiders", "flows", "sentiment"}

\* the scripts whose constructor requires SEC_EDGAR_USER_AGENT
SecDomains == {"fund_13f", "insiders"}

\* the scripts whose save() validates before writing
SchemaNames == {"congress", "macro", "fund_13f", "insiders"}

\* os.environ.get("SEC_EDGAR_USER_AGENT"): None, "" or a user agent
SecretStates == {"unset", "empty", "set"}

\* a schema file: not JSON at all, the empty schema {}, the domain's typed
\* schema, or JSON that is not a valid JSON Schema
FileKinds == {"malformed", "any", "strict", "invalid"}

NoDir == [exists |-> FALSE, files |-> <<>>]

EmptyDir == [exists |-> TRUE, files |-> <<>>]

\* config/schemas: absent, empty, or one file per validating domain
SchemaDirs ==
    {NoDir, EmptyDir}
        \cup {[exists |-> TRUE, files |-> [n \in SchemaNames |-> k]] : k \in FileKinds}

\* the artifact a previous successful run left at every output path
OldArtifact == [state |-> "old"]

Full(doc) == [state |-> "full", doc |-> doc]

Partial(doc) == [state |-> "partial", doc |-> doc]

----------------------------------------------------------------------------
(* scripts/utils.py *)

\* a validator that defers reading the schema directory to the first validate
_load_schemas_Lazy(dir) ==
    IF ~dir.exists \/ \E n \in DOMAIN dir.files : dir.files[n] = "malformed"
    THEN [raised |-> FALSE, schemas |-> <<>>, io |-> {}]
    ELSE [raised |-> FALSE, schemas |-> [n \in DOMAIN dir.files |-> dir.files[n]],
          io |-> {}]

\* DataValidator.__init__ / _load_schemas: the registry, or the exception of
\* json.load on a file that is not JSON
_load_schemas(dir) ==
    IF ~dir.exists
    THEN [raised |-> FALSE, schemas |-> <<>>, io |-> {"schema_dir"}]
    ELSE IF \E n \in DOMAIN dir.files : dir.files[n] = "malformed"
         THEN [raised |-> TRUE, schemas |-> <<>>, io |-> {"schema_dir", "schema_file"}]
         ELSE [raised |-> FALSE,
               schemas |-> [n \in DOMAIN dir.files |-> dir.files[n]],
               io |-> IF DOMAIN dir.files = {} THEN {"schema_dir"}
                      ELSE {"schema_dir", "schema_file"}]

\* jsonschema.validate(instance, schema) for the schemas of FileKinds:
\* "raise" is jsonschema.exceptions.SchemaError, which validate() does not catch
Conforms(doc, schema) ==
    CASE schema = "any" -> TRUE
      [] schema = "strict" ->
            IF "transactions" \in DOMAIN doc
            THEN \A i \in 1..Len(doc.transactions) : doc.transactions[i].date.t = "str"
            ELSE IF "indicators" \in DOMAIN doc
            THEN {"US2Y", "US10Y"} \subseteq DOMAIN doc.indicators.yields
            ELSE IF "fund_info" \in DOMAIN doc
            THEN doc.fund_info.filing_date.t = "str"
            ELSE TRUE
      [] OTHER -> FALSE

\* a registry lookup that fails open
validate_FailOpen(doc, schema_name, registry) ==
    IF schema_name \notin DOMAIN registry
    THEN "true"
    ELSE IF registry[schema_name] = "invalid" THEN "raise"
         ELSE IF Conforms(doc, registry[schema_name]) THEN "true" ELSE "false"

\* DataValidator.validate: "true", "false", or "raise"
validate(doc, schema_name, registry) ==
    IF schema_name \notin DOMAIN registry
    THEN "false"
    ELSE IF registry[schema_name] = "invalid" THEN "raise"
         ELSE IF Conforms(doc, registry[schema_name]) THEN "true" ELSE "false"

\* where a write can fail: mkdir, open, json.dump (after the file was
\* truncated by open(.., 'w')), stat
WriteOutcomes == {"ok", "mkdir_error", "open_error", "dump_error", "stat_error"}

\* a writer that reports success although json.dump failed
write_json_Optimistic(doc, prior, outcome) ==
    CASE outcome = "ok" -> [ret |-> TRUE, raised |-> FALSE, content |-> Full(doc)]
      [] outcome \in {"mkdir_error", "open_error"} ->
            [ret |-> FALSE, raised |-> FALSE, content |-> prior]
      [] outcome = "dump_error" ->
            [ret |-> TRUE, raised |-> FALSE, content |-> Partial(doc)]
      [] outcome = "stat_error" ->
            [ret |-> FALSE, raised |-> FALSE, content |-> Full(doc)]

\* DataWriter.write_json: return value and what the path holds afterwards
write_json(doc, prior, outcome) ==
    CASE outcome = "ok" -> [ret |-> TRUE, raised |-> FALSE, content |-> Full(doc)]
      [] outcome \in {"mkdir_error", "open_error"} ->
            [ret |-> FALSE, raised |-> FALSE, content |-> prior]
      [] outcome = "dump_error" ->
            [ret |-> FALSE, raised |-> FALSE, content |-> Partial(doc)]
      [] outcome = "stat_error" ->
            [ret |-> FALSE, raised |-> FALSE, content |-> Full(doc)]

\* get_timestamp(): datetime.utcnow().isoformat() + "Z"
get_timestamp(clock) == <<clock, "Z">>

\* a lookup that treats every secret as optional
get_secret_Optional(value, required) ==
    [raised |-> FALSE, value |-> value]

\* get_secret: raises ValueError when required and the variable is unset or ""
get_secret(value, required) ==
    IF required /\ value \in {"unset", "empty"}
    THEN [raised |-> TRUE, value |-> value]
    ELSE [raised |-> FALSE, value |-> value]

\* create_metadata(total_count, **kwargs): kwargs are merged over the two
\* standard keys by dict.update
create_metadata(clock, total_count, kwargs) ==
    kwargs @@ [last_updated |-> get_timestamp(clock), total_count |-> total_count]

----------------------------------------------------------------------------
(* scripts/fetch_congress.py: normalisation *)

\* str.replace(ch, "")
Without(s, ch) ==
    LET Keep(c) == c # ch IN SelectSeq(s, Keep)

RECURSIVE LStrip(_)
LStrip(s) == IF s # <<>> /\ IsSpace(Head(s)) THEN LStrip(Tail(s)) ELSE s

RECURSIVE RStrip(_)
RStrip(s) ==
    IF s # <<>> /\ IsSpace(s[Len(s)]) THEN RStrip(SubSeq(s, 1, Len(s) - 1)) ELSE s

\* str.strip()
Strip(s) == RStrip(LStrip(s))

\* positions of ch in s
Positions(s, ch) == {i \in 1..Len(s) : s[i] = ch}

Min(S) == CHOOSE x \in S : \A y \in S : x <= y

\* s.split(ch)[0] and s.split(ch)[1], for s that contains ch
SplitFirst(s, ch) == SubSeq(s, 1, Min(Positions(s, ch)) - 1)

SplitSecond(s, ch) ==
    LET first == Min(Positions(s, ch))
        later == {i \in Positions(s, ch) : i > first}
        stop  == IF later = {} THEN Len(s) + 1 ELSE Min(later)
    IN  SubSeq(s, first + 1, stop - 1)

RECURSIVE DigitsValue(_)
DigitsValue(s) ==
    IF s = <<>> THEN 0
    ELSE 10 * DigitsValue(SubSeq(s, 1, Len(s) - 1)) + (Code(s[Len(s)]) - Code("0"))

\* float(s) for decimal integer text with an optional sign; every other text
\* of the model (empty, words) is a ValueError
ParseFloat(s) ==
    LET body == IF s # <<>> /\ Head(s) = "-" THEN Tail(s) ELSE s
    IN  IF body # <<>> /\ \A i \in 1..Len(body) : IsDigit(body[i])
        THEN [ok |-> TRUE,
              value |-> IF body = s THEN DigitsValue(body) ELSE 0 - DigitsValue(body)]
        ELSE [ok |-> FALSE, value |-> 0]

\* _parse_amount_range: <<min, max>>; the bare except turns every error,
\* also str methods missing on a non-str value, into <<0, 0>>
_parse_amount_range(amount) ==
    IF amount.t # "str" THEN <<0, 0>>
    ELSE LET amount_str == Without(Without(amount.v, "$"), ",")
         IN  IF Positions(amount_str, "-") # {}
             THEN LET lo == ParseFloat(Strip(SplitFirst(amount_str, "-")))
                      hi == ParseFloat(Strip(SplitSecond(amount_str, "-")))
                  IN  IF lo.ok /\ hi.ok THEN <<lo.value, hi.value>> ELSE <<0, 0>>
             ELSE LET val == ParseFloat(Strip(amount_str))
                  IN  IF val.ok THEN <<val.value, val.value>> ELSE <<0, 0>>

\* a normalisation that looks for the words as they are written
_normalize_transaction_type_CaseSensitive(raw_type) ==
    IF raw_type.t # "str" THEN [raised |-> TRUE, value |-> "purchase"]
    ELSE LET raw_type_lower == raw_type.v
         IN  [raised |-> FALSE,
              value |->
                IF \/ Contains(<<"p","u","r","c","h","a","s","e">>, raw_type_lower)
                   \/ Contains(<<"b","u","y">>, raw_type_lower)
                THEN "purchase"
                ELSE IF \/ Contains(<<"s","a","l","e">>, raw_type_lower)
                        \/ Contains(<<"s","e","l","l">>, raw_type_lower)
                THEN "sale"
                ELSE IF Contains(<<"e","x","c","h","a","n","g","e">>, raw_type_lower)
                THEN "exchange"
                ELSE "purchase"]

\* _normalize_transaction_type: raw_type.lower() raises AttributeError on a
\* value that is not a str
_normalize_transaction_type(raw_type) ==
    IF raw_type.t # "str" THEN [raised |-> TRUE, value |-> "purchase"]
    ELSE LET raw_type_lower == Lower(raw_type.v)
         IN  [raised |-> FALSE,
              value |->
                IF \/ Contains(<<"p","u","r","c","h","a","s","e">>, raw_type_lower)
                   \/ Contains(<<"b","u","y">>, raw_type_lower)
                THEN "purchase"
                ELSE IF \/ Contains(<<"s","a","l","e">>, raw_type_lower)
                        \/ Contains(<<"s","e","l","l">>, raw_type_lower)
                THEN "sale"
                ELSE IF Contains(<<"e","x","c","h","a","n","g","e">>, raw_type_lower)
                THEN "exchange"
                ELSE "purchase"]

\* Python None as a return value
NoTransaction == [none |-> TRUE]

IsNone(x) == "none" \in DOMAIN x

\* _normalize_transaction: the normalised record, or None (NoTransaction)
\* when anything inside its try block raised
_normalize_transaction(raw_data, chamber) ==
    LET ttype  == _normalize_transaction_type(
                      safe_get(raw_data, "type", Str(<<"p","u","r","c","h","a","s","e">>)))
        amount == safe_get(raw_data, "amount", Str(<<"N","/","A">>))
        range  == _parse_amount_range(amount)
    IN  IF ttype.raised THEN NoTransaction
        ELSE [person           |-> safe_get(raw_data, "representative",
                                            Str(<<"U","n","k","n","o","w","n">>)),
              chamber          |-> chamber,
              ticker           |-> safe_get(raw_data, "ticker", Str(<<"N","/","A">>)),
              sector           |-> safe_get(raw_data, "sector",
                                            Str(<<"U","n","k","n","o","w","n">>)),
              transaction_type |-> ttype.value,
              amount_range     |-> amount,
              date             |-> safe_get(raw_data, "transaction_date", Str(<<>>)),
              disclosure_date  |-> safe_get(raw_data, "disclosure_date", Str(<<>>)),
              link             |-> safe_get(raw_data, "ptr_link", Str(<<>>)),
              amount_min       |-> range[1],
              amount_max       |-> range[2]]

\* a loop without the per-record try: the first bad record ends the loop and
\* the chamber's outer except returns what no caller sees
RECURSIVE NormalizeLoop_Abort(_, _)
NormalizeLoop_Abort(items, chamber) ==
    IF items = <<>> THEN <<>>
    ELSE LET transaction == _normalize_transaction(Head(items), chamber)
         IN  IF IsNone(transaction)
             THEN <<>>
             ELSE <<transaction>> \o NormalizeLoop_Abort(Tail(items), chamber)

\* the loop of fetch_house_transactions / fetch_senate_transactions:
\* for item in data: normalise, append when not None
RECURSIVE NormalizeLoop(_, _)
NormalizeLoop(items, chamber) ==
    IF items = <<>> THEN <<>>
    ELSE LET transaction == _normalize_transaction(Head(items), chamber)
         IN  IF IsNone(transaction)
             THEN NormalizeLoop(Tail(items), chamber)
             ELSE <<transaction>> \o NormalizeLoop(Tail(items), chamber)

\* the reply of requests.get(url).json(): any transport, status or parse
\* error, or a list of raw records
FetchError == [error |-> TRUE, records |-> <<>>]

Reply(records) == [error |-> FALSE, records |-> records]

\* a fetch without its try/except
fetch_house_transactions_Unguarded(reply) ==
    IF reply.error
    THEN [raised |-> TRUE, transactions |-> <<>>]
    ELSE [raised |-> FALSE, transactions |-> NormalizeLoop(reply.records, "House")]

\* fetch_house_transactions
fetch_house_transactions(reply) ==
    IF reply.error
    THEN [raised |-> FALSE, transactions |-> <<>>]
    ELSE [raised |-> FALSE, transactions |-> NormalizeLoop(reply.records, "House")]

\* fetch_senate_transactions
fetch_senate_transactions(reply) ==
    IF reply.error
    THEN [raised |-> FALSE, transactions |-> <<>>]
    ELSE [raised |-> FALSE, transactions |-> NormalizeLoop(reply.records, "Senate")]

----------------------------------------------------------------------------
(* scripts/fetch_congress.py, scripts/fetch_insiders.py: aggregation *)

\* a < b between two sort keys of the same Python type
KeyLess(a, b) ==
    IF a.t = "num" THEN DigitsValue(a.v) < DigitsValue(b.v) ELSE StrLess(a.v, b.v)

\* list.sort compares keys with <: a str against a number is a TypeError
SortRaises(transactions) ==
    \E i, j \in 1..Len(transactions) : transactions[i].date.t # transactions[j].date.t

\* where a stable descending sort puts x into the sorted prefix: after every
\* element whose key is not smaller
RECURSIVE InsertDesc(_, _)
InsertDesc(sorted, x) ==
    IF sorted = <<>> THEN <<x>>
    ELSE IF KeyLess(Head(sorted).date, x.date)
         THEN <<x>> \o sorted
         ELSE <<Head(sorted)>> \o InsertDesc(Tail(sorted), x)

\* a fetch_all that leaves the records in arrival order
SortByDateDesc_Unsorted(transactions) == transactions

\* transactions.sort(key=lambda x: x.get("date", ""), reverse=True)
RECURSIVE SortByDateDesc(_)
SortByDateDesc(transactions) ==
    IF transactions = <<>> THEN <<>>
    ELSE InsertDesc(SortByDateDesc(SubSeq(transactions, 1, Len(transactions) - 1)),
                    transactions[Len(transactions)])

\* an aggregation that counts every record for the House
CongressAssemble_Miscounted(house_transactions, senate_transactions, clock) ==
    LET all_transactions == house_transactions \o senate_transactions
        sorted == SortByDateDesc(all_transactions)
    IN  IF SortRaises(all_transactions)
        THEN [raised |-> TRUE, data |-> <<>>]
        ELSE [raised |-> FALSE,
              data |->
                [metadata |->
                    create_metadata(clock, Len(sorted),
                        [house_count  |-> Len(all_transactions),
                         senate_count |-> Len(senate_transactions),
                         date_range   |->
                            [from |-> IF sorted # <<>> THEN sorted[Len(sorted)].date
                                      ELSE Str(<<>>),
                             to   |-> IF sorted # <<>> THEN sorted[1].date
                                      ELSE Str(<<>>)]]),
                 transactions |-> sorted]]

\* CongressDataFetcher.fetch_all after the two chamber fetches: concatenate,
\* sort, attach the metadata
CongressAssemble(house_transactions, senate_transactions, clock) ==
    LET all_transactions == house_transactions \o senate_transactions
        sorted == SortByDateDesc(all_transactions)
    IN  IF SortRaises(all_transactions)
        THEN [raised |-> TRUE, data |-> <<>>]
        ELSE [raised |-> FALSE,
              data |->
                [metadata |->
                    create_metadata(clock, Len(sorted),
                        [house_count  |-> Len(house_transactions),
                         senate_count |-> Len(senate_transactions),
                         date_range   |->
                            [from |-> IF sorted # <<>> THEN sorted[Len(sorted)].date
                                      ELSE Str(<<>>),
                             to   |-> IF sorted # <<>> THEN sorted[1].date
                                      ELSE Str(<<>>)]]),
                 transactions |-> sorted]]

----------------------------------------------------------------------------
(* scripts/fetch_macro.py *)

\* symbol_map, in dict order: <<Yahoo symbol, our name>>
symbol_map ==
    << <<"^TNX", "US10Y">>, <<"^IRX", "US2Y">>, <<"DX-Y.NYB", "DXY">>,
       <<"^VIX", "VIX">>, <<"GC=F", "gold">>, <<"CL=F", "oil">>,
       <<"HG=F", "copper">> >>

\* indicators as fetch_all first builds them
EmptyIndicators ==
    [yields |-> <<>>, currencies |-> <<>>, volatility |-> <<>>, commodities |-> <<>>]

\* a Yahoo chart reply: an error, a reply without result, or a meta block
QuoteReply(price, previous_close) ==
    [error |-> FALSE, result |-> TRUE, price |-> price, previous_close |-> previous_close]

NoResultReply == [error |-> FALSE, result |-> FALSE, price |-> 0, previous_close |-> 0]

QuoteError == [error |-> TRUE, result |-> FALSE, price |-> 0, previous_close |-> 0]

\* fetch_yahoo_quote: the quote, or None
fetch_yahoo_quote(symbol, reply, clock) ==
    IF reply.error \/ ~reply.result THEN NoTransaction
    ELSE LET change == IF reply.previous_close # 0
                       THEN reply.price - reply.previous_close ELSE 0
         IN  [symbol         |-> symbol,
              price          |-> reply.price,
              previous_close |-> reply.previous_close,
              change         |-> change,
              change_pct     |-> IF reply.previous_close # 0
                                 THEN (change * 100) \div reply.previous_close ELSE 0,
              timestamp      |-> clock]

\* fetch_yahoo_history: the daily closes, [] on any error or empty reply
SampleHistory == <<[date |-> "2025-11-10", value |-> 1]>>

fetch_yahoo_history(symbol, up) == IF up THEN SampleHistory ELSE <<>>

\* a spread with its legs the other way round
calculate_spread_2s10s_Swapped(us2y, us10y) == us2y - us10y

\* calculate_spread_2s10s
calculate_spread_2s10s(us2y, us10y) == us10y - us2y

\* one pass of the loop of fetch_all: categorise the quote, keep the history
MacroCategorise(indicators, our_name, quote) ==
    IF IsNone(quote) THEN indicators
    ELSE IF our_name \in {"US2Y", "US10Y"}
         THEN [indicators EXCEPT !.yields = (our_name :> quote.price) @@ @]
         ELSE IF our_name = "DXY"
         THEN [indicators EXCEPT !.currencies = (our_name :> quote.price) @@ @]
         ELSE IF our_name = "VIX"
         THEN [indicators EXCEPT !.volatility = (our_name :> quote.price) @@ @]
         ELSE [indicators EXCEPT !.commodities = (our_name :> quote.price) @@ @]

\* the end of fetch_all: the spread when both legs are present, the document
MacroAssemble(indicators, history, clock) ==
    LET yields == indicators.yields
        withSpread ==
            IF "US2Y" \in DOMAIN yields /\ "US10Y" \in DOMAIN yields
            THEN [indicators EXCEPT !.yields =
                     ("spread_2s10s" :>
                         calculate_spread_2s10s(yields["US2Y"], yields["US10Y"])) @@ @]
            ELSE indicators
    IN  [metadata   |-> create_metadata(clock, 0, <<>>),
         indicators |-> withSpread,
         history    |-> history]

----------------------------------------------------------------------------
(* scripts/fetch_13f.py *)

\* fund_name.split()[0]: the first whitespace-delimited token
FirstToken(s) ==
    LET body == LStrip(s)
        stops == {i \in 1..Len(body) : IsSpace(body[i])}
    IN  IF stops = {} THEN body ELSE SubSeq(body, 1, Min(stops) - 1)

\* _create_slug: IndexError when the name has no token
_create_slug(fund_name) ==
    IF LStrip(fund_name) = <<>>
    THEN [raised |-> TRUE, slug |-> <<>>]
    ELSE [raised |-> FALSE, slug |-> SelectSeq(Lower(FirstToken(fund_name)), IsAlnum)]

\* a submissions reply: an error, or the parallel lists of filings.recent
FilingsReply(forms, filingDate, reportDate, accessionNumber) ==
    [error |-> FALSE, form |-> forms, filingDate |-> filingDate,
     reportDate |-> reportDate, accessionNumber |-> accessionNumber]

FilingsError ==
    [error |-> TRUE, form |-> <<>>, filingDate |-> <<>>, reportDate |-> <<>>,
     accessionNumber |-> <<>>]

\* fetch_fund_13f: the fund document, or None when the request fails, no
\* 13F-HR is listed, or a parallel list is too short (IndexError, caught)
fetch_fund_13f(cik, fund_name, reply, clock) ==
    LET hits == {i \in 1..Len(reply.form) : reply.form[i] = "13F-HR"}
        f13_index == Min(hits)
    IN  IF reply.error \/ hits = {} THEN NoTransaction
        ELSE IF \/ f13_index > Len(reply.filingDate)
                \/ f13_index > Len(reply.reportDate)
                \/ f13_index > Len(reply.accessionNumber)
        THEN NoTransaction
        ELSE [fund_info |->
                 [name |-> fund_name, cik |-> cik,
                  filing_date |-> reply.filingDate[f13_index],
                  period_end |-> reply.reportDate[f13_index],
                  total_value |-> 0],
              metadata |->
                 create_metadata(clock, 0,
                     [holdings_count |-> 0,
                      accession_number |-> reply.accessionNumber[f13_index]]),
              holdings |-> <<>>]

\* all_funds_data[fund_slug] = fund_data on a dict kept as a list of items:
\* an existing key keeps its place and takes the new value
DictPut(items, key, value) ==
    IF \E i \in 1..Len(items) : items[i].key = key
    THEN [i \in 1..Len(items) |->
             IF items[i].key = key THEN [key |-> key, value |-> value] ELSE items[i]]
    ELSE Append(items, [key |-> key, value |-> value])

----------------------------------------------------------------------------
(* scripts/fetch_insiders.py, fetch_flows.py, fetch_sentiment.py: the       *)
(* sample data these scripts use in place of an upstream                    *)

\* _generate_sample_transactions (without price_per_share, a float, and
\* form_url, which nothing reads)
SampleInsiderTransactions ==
    << [insider_name |-> "John Smith", insider_title |-> "CEO",
        company |-> "Tech Corp", ticker |-> "TECH", transaction_type |-> "BUY",
        shares |-> 10000, value |-> 1505000, shares_owned_after |-> 250000,
        date |-> Str(<<"2","0","2","5","-","1","1","-","1","0">>),
        filing_date |-> "2025-11-12"],
       [insider_name |-> "Jane Doe", insider_title |-> "CFO",
        company |-> "Finance Inc", ticker |-> "FIN", transaction_type |-> "SELL",
        shares |-> 5000, value |-> 426250, shares_owned_after |-> 50000,
        date |-> Str(<<"2","0","2","5","-","1","1","-","1","1">>),
        filing_date |-> "2025-11-13"] >>

\* InsiderDataFetcher.fetch_all
InsiderAssemble(transactions, clock) ==
    LET sorted == SortByDateDesc(transactions)
    IN  [metadata |-> create_metadata(clock, Len(sorted), <<>>),
         transactions |-> sorted]

\* fetch_etf_flows, fetch_options_data: the tickers of the sample rows
SampleEtfFlows == <<"SPY", "QQQ", "IWM">>

SampleOptions == <<"SPY", "AAPL", "TSLA">>

\* FlowDataFetcher.fetch_all
FlowAssemble(etf_flows, options_data, clock) ==
    [metadata |-> create_metadata(clock, 0,
                     [etf_count |-> Len(etf_flows), options_count |-> Len(options_data)]),
     etf_flows |-> etf_flows,
     options |-> options_data]

\* Decimal quantities of fetch_sentiment.py in fixed point: the four inputs
\* and the weights in hundredths, a component score in hundredths of a
\* point, the weighted sum in ten-thousandths of a point, the rounded index
\* in tenths of a point.

\* the example values calculate_fear_greed_index computes with
SampleSentiment ==
    [vix_value |-> 1850, put_call_ratio |-> 75, market_momentum |-> 65,
     safe_haven_demand |-> 35]

\* weights
weights == [vix |-> 30, put_call |-> 25, momentum |-> 25, safe_haven |-> 20]

\* max(0, min(100, x)) of a component score
Clamp(x) == IF x < 0 THEN 0 ELSE IF x > 10000 THEN 10000 ELSE x

\* round(fear_greed_score, 1): to the nearest tenth, a tie to the even one
RoundTenth(fear_greed_score) ==
    LET q == fear_greed_score \div 1000
        r == fear_greed_score % 1000
    IN  IF r > 500 \/ (r = 500 /\ q % 2 = 1) THEN q + 1 ELSE q

\* bands whose upper bounds belong to the band above
Classify_Exclusive(fear_greed_score) ==
    IF fear_greed_score < 200000
    THEN [classification |-> "Extreme Fear", signal |-> "contrarian_buy"]
    ELSE IF fear_greed_score < 400000
    THEN [classification |-> "Fear", signal |-> "cautious"]
    ELSE IF fear_greed_score < 600000
    THEN [classification |-> "Neutral", signal |-> "neutral"]
    ELSE IF fear_greed_score < 800000
    THEN [classification |-> "Greed", signal |-> "cautious"]
    ELSE [classification |-> "Extreme Greed", signal |-> "contrarian_sell"]

\* the if / elif chain of calculate_fear_greed_index
Classify(fear_greed_score) ==
    IF fear_greed_score <= 200000
    THEN [classification |-> "Extreme Fear", signal |-> "contrarian_buy"]
    ELSE IF fear_greed_score <= 400000
    THEN [classification |-> "Fear", signal |-> "cautious"]
    ELSE IF fear_greed_score <= 600000
    THEN [classification |-> "Neutral", signal |-> "neutral"]
    ELSE IF fear_greed_score <= 800000
    THEN [classification |-> "Greed", signal |-> "cautious"]
    ELSE [classification |-> "Extreme Greed", signal |-> "contrarian_sell"]

\* calculate_fear_greed_index, its example values as a parameter; score is
\* the local fear_greed_score, which the returned dict carries rounded
calculate_fear_greed_index(inputs) ==
    LET vix_normalized == Clamp(10000 - (inputs.vix_value - 1000) * 5)
        put_call_normalized == Clamp(10000 - (inputs.put_call_ratio - 50) * 100)
        momentum_normalized == inputs.market_momentum * 100
        safe_haven_normalized == (100 - inputs.safe_haven_demand) * 100
        fear_greed_score ==
            vix_normalized * weights.vix
                + put_call_normalized * weights.put_call
                + momentum_normalized * weights.momentum
                + safe_haven_normalized * weights.safe_haven
        band == Classify(fear_greed_score)
    IN  [score |-> fear_greed_score,
         index |-> RoundTenth(fear_greed_score),
         classification |-> band.classification,
         signal |-> band.signal,
         components |->
            [vix |-> vix_normalized, put_call_ratio |-> put_call_normalized,
             market_momentum |-> momentum_normalized,
             safe_haven_demand |-> safe_haven_normalized]]

\* SentimentDataFetcher.fetch_all
SentimentAssemble(clock) ==
    [metadata |-> create_metadata(clock, 0, <<>>),
     fear_greed |-> calculate_fear_greed_index(SampleSentiment),
     aaii |-> [interpretation |-> "Slightly Bearish"]]

----------------------------------------------------------------------------
(* Inputs of a run *)

D0105 == <<"2","0","2","5","-","0","1","-","0","5">>

D0201 == <<"2","0","2","5","-","0","2","-","0","1">>

\* raw congressional records: two well-formed ones, one whose type is a
\* number (normalisation fails), one whose date is a number, one with
\* nothing but a name
RawRecords ==
    { Obj([representative |-> Str(<<"A">>), ticker |-> Str(<<"X","Y","Z">>),
           type |-> Str(<<"p","u","r","c","h","a","s","e">>),
           amount |-> Str(<<"$","1",",","0","0","1"," ","-"," ","$","1","5",",","0","0","0">>),
           transaction_date |-> Str(D0105)]),
      Obj([representative |-> Str(<<"B">>),
           type |-> Str(<<"S","a","l","e"," ","(","F","u","l","l",")">>),
           amount |-> Str(<<"$","5","0">>),
           transaction_date |-> Str(D0201)]),
      Obj([representative |-> Str(<<"C">>), type |-> Num(<<"5">>),
           transaction_date |-> Str(D0105)]),
      Obj([representative |-> Str(<<"D">>), type |-> Null,
           transaction_date |-> Num(<<"7">>)]),
      Obj([representative |-> Str(<<"E">>)]) }

BoundedSeq(S, n) == UNION {[1..k -> S] : k \in 0..n}

\* no element occurs twice
NoRepeat(seq) == \A i, j \in 1..Len(seq) : seq[i] = seq[j] => i = j

\* what a chamber endpoint can answer: an error, or up to MaxRaw raw records,
\* each disclosure listed once
ChamberReplies ==
    {FetchError}
        \cup {Reply(r) : r \in {l \in BoundedSeq(RawRecords, MaxRaw) : NoRepeat(l)}}

\* priority funds of config/sources.json
Scion == <<"S","c","i","o","n"," ","L","P">>

ScionII == <<"S","c","i","o","n"," ","I","I">>

Shaw == <<"D",".","E","."," ","S","h","a","w">>

Blank == <<" ">>

FundNames == {Scion, ScionII, Shaw, Blank}

\* load_config("sources"): {} when the file is missing or unreadable, else
\* the source URLs and the cik -> name map (in file order)
NoConfig == [urls |-> FALSE, priority_ciks |-> <<>>]

Configs ==
    { NoConfig,
      [urls |-> TRUE, priority_ciks |->
          << [cik |-> "1649339", name |-> Scion], [cik |-> "1009207", name |-> Shaw] >>],
      [urls |-> TRUE, priority_ciks |->
          << [cik |-> "1649339", name |-> Scion], [cik |-> "1649340", name |-> ScionII] >>],
      [urls |-> TRUE, priority_ciks |->
          << [cik |-> "1009207", name |-> Shaw], [cik |-> "0", name |-> Blank] >>] }

\* what the submissions endpoint can answer for one fund
FundReplies ==
    { FilingsError,
      FilingsReply(<<"10-K">>, <<Str(D0105)>>, <<Str(D0105)>>, <<"a1">>),
      FilingsReply(<<"10-K", "13F-HR">>, <<Str(D0201)>>, <<Str(D0201)>>, <<"a1">>),
      FilingsReply(<<"10-K", "13F-HR">>, <<Str(D0201), Str(D0105)>>,
                   <<Str(D0201), Str(D0105)>>, <<"a1", "a2">>),
      FilingsReply(<<"13F-HR">>, <<Null>>, <<Str(D0105)>>, <<"a3">>) }

\* regularMarketPrice values the quote endpoint can report
YieldPrices == {1, 3}

QuoteReplies(our_name) ==
    {QuoteError, NoResultReply}
        \cup (IF our_name \in {"US2Y", "US10Y"}
              THEN {QuoteReply(p, 1) : p \in YieldPrices}
              ELSE {QuoteReply(2, 1)})

----------------------------------------------------------------------------
(* Output paths *)

Path(dir, stem) == [dir |-> dir, stem |-> stem]

\* the default output_path of each save()
OutputPath(d) ==
    CASE d = "congress"  -> Path("data/congress", <<"a","l","l">>)
      [] d = "macro"     -> Path("data/macro", <<"i","n","d","i","c","a","t","o","r","s">>)
      [] d = "insiders"  -> Path("data/insiders", <<"l","a","t","e","s","t">>)
      [] d = "flows"     -> Path("data/flows", <<"l","a","t","e","s","t">>)
      [] d = "sentiment" -> Path("data/sentiment", <<"l","a","t","e","s","t">>)

\* f"data/funds/{fund_slug}.json"
FundPath(fund_slug) == Path("data/funds", fund_slug)

AllPaths ==
    {OutputPath(d) : d \in Domains \ {"fund_13f"}}
        \cup {FundPath(_create_slug(n).slug) : n \in FundNames}

----------------------------------------------------------------------------
(* save(): validate, then write *)

\* a save that writes whatever validate returned
ValidateThenWrite_Ungated(doc, schema_name, registry, prior, outcome) ==
    LET v == validate(doc, schema_name, registry)
        w == write_json(doc, prior, outcome)
    IN  IF v = "raise"
        THEN [schema |-> schema_name, validate |-> v, wrote |-> FALSE, ret |-> FALSE,
              raised |-> TRUE, outcome |-> "none", content |-> prior]
        ELSE [schema |-> schema_name, validate |-> v, wrote |-> TRUE, ret |-> w.ret,
              raised |-> w.raised, outcome |-> outcome, content |-> w.content]

\* the body shared by CongressDataFetcher.save, MacroDataFetcher.save,
\* InsiderDataFetcher.save and one pass of Fund13FFetcher.save_all
ValidateThenWrite(doc, schema_name, registry, prior, outcome) ==
    LET v == validate(doc, schema_name, registry)
        w == write_json(doc, prior, outcome)
    IN  IF v = "raise"
        THEN [schema |-> schema_name, validate |-> v, wrote |-> FALSE, ret |-> FALSE,
              raised |-> TRUE, outcome |-> "none", content |-> prior]
        ELSE IF v = "false"
        THEN [schema |-> schema_name, validate |-> v, wrote |-> FALSE, ret |-> FALSE,
              raised |-> FALSE, outcome |-> "none", content |-> prior]
        ELSE [schema |-> schema_name, validate |-> v, wrote |-> TRUE, ret |-> w.ret,
              raised |-> w.raised, outcome |-> outcome, content |-> w.content]

\* FlowDataFetcher.save, SentimentDataFetcher.save: no validation
WriteOnly(doc, prior, outcome) ==
    LET w == write_json(doc, prior, outcome)
    IN  [schema |-> "none", validate |-> "none", wrote |-> TRUE, ret |-> w.ret,
         raised |-> w.raised, outcome |-> outcome, content |-> w.content]

\* the entry the run keeps of one save
SaveEntry(path, doc, prior, s) ==
    [path |-> path, doc |-> doc, prior |-> prior, schema |-> s.schema,
     validate |-> s.validate, wrote |-> s.wrote, outcome |-> s.outcome, ret |-> s.ret]

----------------------------------------------------------------------------
(* The run *)

\* a run of main() calls no helper on its own
NoCall == [fn |-> "none"]

Init ==
    /\ domain \in Domains
    /\ \E secret \in SecretStates, dir \in SchemaDirs, up \in BOOLEAN :
          \* only the SEC scripts read the credential, only Macro the history
          /\ domain \notin SecDomains => secret = "set"
          /\ domain # "macro" => up
          /\ env = [secret |-> secret, schemaDir |-> dir, history |-> up, clock |-> 1]
    /\ pc = "start"
    /\ io = {}
    /\ schemas = <<>>
    /\ config = NoConfig
    /\ files = [p \in AllPaths |-> OldArtifact]
    /\ fetched = [anyOK |-> FALSE]
    /\ data = <<>>
    /\ cursor = 1
    /\ saved = <<>>
    /\ raisedBy = "none"
    /\ exitCode = -1
    /\ call = NoCall

\* an exception nothing catches ends main(); the interpreter exits with 1
Raise(who) ==
    /\ pc' = "done"
    /\ raisedBy' = who
    /\ exitCode' = 1

\* logger.error / logger.warning, then exit(1)
Exit(code) ==
    /\ pc' = "done"
    /\ exitCode' = code
    /\ raisedBy' = raisedBy

\* CongressDataFetcher.__init__
CongressInit ==
    /\ pc = "start" /\ domain = "congress"
    /\ \E cfg \in Configs :
          LET ld == _load_schemas(env.schemaDir)
          IN  /\ io' = io \cup {"config_file"} \cup ld.io
              /\ IF ld.raised
                 THEN Raise("_load_schemas") /\ UNCHANGED <<schemas, config>>
                 ELSE /\ schemas' = ld.schemas
                      /\ config' = [urls |-> cfg.urls, priority_ciks |-> <<>>]
                      /\ pc' = "fetch_house"
                      /\ UNCHANGED <<raisedBy, exitCode>>
    /\ UNCHANGED <<call, domain, env, files, fetched, data, cursor, saved>>

\* MacroDataFetcher.__init__ (yahoo_symbols is read and never used)
MacroInit ==
    /\ pc = "start" /\ domain = "macro"
    /\ LET ld == _load_schemas(env.schemaDir)
       IN  /\ io' = io \cup {"config_file"} \cup ld.io
           /\ IF ld.raised
              THEN Raise("_load_schemas") /\ UNCHANGED <<schemas, fetched>>
              ELSE /\ schemas' = ld.schemas
                   /\ fetched' = [anyOK |-> FALSE, requested |-> {}, quotes |-> <<>>,
                                  indicators |-> EmptyIndicators, history |-> <<>>]
                   /\ pc' = "fetch_symbols"
                   /\ UNCHANGED <<raisedBy, exitCode>>
    /\ UNCHANGED <<call, domain, env, config, files, data, cursor, saved>>

\* Fund13FFetcher.__init__: config, schemas, then the credential
Fund13FInit ==
    /\ pc = "start" /\ domain = "fund_13f"
    /\ \E cfg \in Configs :
          LET ld == _load_schemas(env.schemaDir)
              secret == get_secret(env.secret, TRUE)
          IN  /\ io' = io \cup {"config_file"} \cup ld.io
              /\ IF ld.raised
                 THEN Raise("_load_schemas") /\ UNCHANGED <<schemas, config, fetched>>
                 ELSE IF secret.raised
                 THEN /\ Raise("get_secret")
                      /\ schemas' = ld.schemas
                      /\ UNCHANGED <<config, fetched>>
                 ELSE /\ schemas' = ld.schemas
                      /\ config' = [urls |-> FALSE, priority_ciks |-> cfg.priority_ciks]
                      /\ fetched' = [anyOK |-> FALSE, requested |-> <<>>,
                                     succeeded |-> <<>>, funds |-> <<>>]
                      /\ pc' = "fetch_funds"
                      /\ UNCHANGED <<raisedBy, exitCode>>
    /\ UNCHANGED <<call, domain, env, files, data, cursor, saved>>

\* InsiderDataFetcher.__init__: schemas, then the credential
InsiderInit ==
    /\ pc = "start" /\ domain = "insiders"
    /\ LET ld == _load_schemas(env.schemaDir)
           secret == get_secret(env.secret, TRUE)
       IN  /\ io' = io \cup ld.io
           /\ IF ld.raised
              THEN Raise("_load_schemas") /\ UNCHANGED schemas
              ELSE IF secret.raised
              THEN Raise("get_secret") /\ schemas' = ld.schemas
              ELSE /\ schemas' = ld.schemas
                   /\ pc' = "fetch"
                   /\ UNCHANGED <<raisedBy, exitCode>>
    /\ UNCHANGED <<call, domain, env, config, files, fetched, data, cursor, saved>>

\* FlowDataFetcher.__init__, SentimentDataFetcher.__init__
SampleInit ==
    /\ pc = "start" /\ domain \in {"flows", "sentiment"}
    /\ LET ld == _load_schemas(env.schemaDir)
       IN  /\ io' = io \cup ld.io
           /\ IF ld.raised
              THEN Raise("_load_schemas") /\ UNCHANGED schemas
              ELSE /\ schemas' = ld.schemas
                   /\ pc' = "fetch"
                   /\ UNCHANGED <<raisedBy, exitCode>>
    /\ UNCHANGED <<call, domain, env, config, files, fetched, data, cursor, saved>>


\* fetch_all calling fetch_house_transactions; without a configured URL
\* requests.get(None) can only raise
CongressFetchHouse ==
    /\ pc = "fetch_house"
    /\ \E reply \in ChamberReplies :
          /\ config.urls \/ reply.error
          /\ LET r == fetch_house_transactions(reply)
             IN  IF r.raised
                 THEN Raise("fetch_house_transactions") /\ UNCHANGED fetched
                 ELSE /\ fetched' = [anyOK |-> ~reply.error, houseReply |-> reply,
                                     house |-> r.transactions]
                      /\ pc' = "fetch_senate"
                      /\ UNCHANGED <<raisedBy, exitCode>>
    /\ io' = io \cup (IF config.urls THEN {"network"} ELSE {})
    /\ UNCHANGED <<call, domain, env, schemas, config, files, data, cursor, saved>>

\* fetch_all calling fetch_senate_transactions
CongressFetchSenate ==
    /\ pc = "fetch_senate"
    /\ \E reply \in ChamberReplies :
          /\ config.urls \/ reply.error
          /\ LET r == fetch_senate_transactions(reply)
             IN  IF r.raised
                 THEN Raise("fetch_senate_transactions") /\ UNCHANGED fetched
                 ELSE /\ fetched' = [anyOK |-> fetched.anyOK \/ ~reply.error,
                                     houseReply |-> fetched.houseReply,
                                     house |-> fetched.house,
                                     senateReply |-> reply,
                                     senate |-> r.transactions]
                      /\ pc' = "aggregate"
                      /\ UNCHANGED <<raisedBy, exitCode>>
    /\ io' = io \cup (IF config.urls THEN {"network"} ELSE {})
    /\ UNCHANGED <<call, domain, env, schemas, config, files, data, cursor, saved>>

\* the rest of CongressDataFetcher.fetch_all
CongressFetchAll ==
    /\ pc = "aggregate"
    /\ LET a == CongressAssemble(fetched.house, fetched.senate, env.clock)
       IN  IF a.raised
           THEN Raise("sort") /\ UNCHANGED data
           ELSE /\ data' = a.data
                /\ pc' = "fetched"
                /\ UNCHANGED <<raisedBy, exitCode>>
    /\ UNCHANGED <<call, domain, env, io, schemas, config, files, fetched, cursor, saved>>

\* one pass of the loop of MacroDataFetcher.fetch_all: quote, then history
MacroFetchSymbol ==
    /\ pc = "fetch_symbols"
    /\ cursor <= Len(symbol_map)
    /\ LET yahoo_symbol == symbol_map[cursor][1]
           our_name == symbol_map[cursor][2]
       IN  \E reply \in QuoteReplies(our_name) :
              LET quote == fetch_yahoo_quote(yahoo_symbol, reply, env.clock)
                  hist == fetch_yahoo_history(yahoo_symbol, env.history)
              IN  fetched' =
                     [anyOK |-> fetched.anyOK \/ ~IsNone(quote) \/ hist # <<>>,
                      requested |-> fetched.requested \cup {our_name},
                      quotes |-> (our_name :> quote) @@ fetched.quotes,
                      indicators |-> MacroCategorise(fetched.indicators, our_name, quote),
                      history |-> IF hist # <<>> THEN (our_name :> hist) @@ fetched.history
                                  ELSE fetched.history]
    /\ cursor' = cursor + 1
    /\ io' = io \cup {"network"}
    /\ UNCHANGED <<call, domain, env, pc, schemas, config, files, data, saved, raisedBy,
                   exitCode>>

\* the end of MacroDataFetcher.fetch_all
MacroFetchAll ==
    /\ pc = "fetch_symbols"
    /\ cursor > Len(symbol_map)
    /\ data' = MacroAssemble(fetched.indicators, fetched.history, env.clock)
    /\ pc' = "fetched"
    /\ UNCHANGED <<call, domain, env, io, schemas, config, files, fetched, cursor, saved,
                   raisedBy, exitCode>>

\* one pass of the loop of fetch_all_priority_funds
Fund13FFetchFund ==
    /\ pc = "fetch_funds"
    /\ cursor <= Len(config.priority_ciks)
    /\ LET cik == config.priority_ciks[cursor].cik
           fund_name == config.priority_ciks[cursor].name
           fund_slug == _create_slug(fund_name)
       IN  IF fund_slug.raised
           THEN Raise("_create_slug") /\ UNCHANGED <<fetched, cursor, io>>
           ELSE /\ \E reply \in FundReplies :
                      LET fund_data == fetch_fund_13f(cik, fund_name, reply, env.clock)
                      IN  fetched' =
                             [anyOK |-> fetched.anyOK \/ ~IsNone(fund_data),
                              requested |-> Append(fetched.requested, cik),
                              succeeded |-> IF IsNone(fund_data) THEN fetched.succeeded
                                            ELSE Append(fetched.succeeded, cik),
                              funds |-> IF IsNone(fund_data) THEN fetched.funds
                                        ELSE DictPut(fetched.funds, fund_slug.slug,
                                                     fund_data)]
                /\ cursor' = cursor + 1
                /\ io' = io \cup {"network"}
                /\ UNCHANGED <<pc, raisedBy, exitCode>>
    /\ UNCHANGED <<call, domain, env, schemas, config, files, data, saved>>

\* InsiderDataFetcher.fetch_all: fetch_recent_form4 returns the sample rows
InsiderFetchAll ==
    /\ pc = "fetch" /\ domain = "insiders"
    /\ fetched' = [anyOK |-> TRUE, transactions |-> SampleInsiderTransactions]
    /\ data' = InsiderAssemble(SampleInsiderTransactions, env.clock)
    /\ pc' = "fetched"
    /\ UNCHANGED <<call, domain, env, io, schemas, config, files, cursor, saved, raisedBy,
                   exitCode>>

\* FlowDataFetcher.fetch_all
FlowFetchAll ==
    /\ pc = "fetch" /\ domain = "flows"
    /\ fetched' = [anyOK |-> TRUE]
    /\ data' = FlowAssemble(SampleEtfFlows, SampleOptions, env.clock)
    /\ pc' = "fetched"
    /\ UNCHANGED <<call, domain, env, io, schemas, config, files, cursor, saved, raisedBy,
                   exitCode>>

\* SentimentDataFetcher.fetch_all
SentimentFetchAll ==
    /\ pc = "fetch" /\ domain = "sentiment"
    /\ fetched' = [anyOK |-> TRUE]
    /\ data' = SentimentAssemble(env.clock)
    /\ pc' = "fetched"
    /\ UNCHANGED <<call, domain, env, io, schemas, config, files, cursor, saved, raisedBy,
                   exitCode>>


\* CongressDataFetcher.save
CongressSave(doc, registry, prior, outcome) ==
    ValidateThenWrite(doc, "congress", registry, prior, outcome)

\* MacroDataFetcher.save
MacroSave(doc, registry, prior, outcome) ==
    ValidateThenWrite(doc, "macro", registry, prior, outcome)

\* InsiderDataFetcher.save
InsiderSave(doc, registry, prior, outcome) ==
    ValidateThenWrite(doc, "insiders", registry, prior, outcome)

\* the effect of one save on the run: the artifact, the I/O, the entry
Saving(path, doc, s) ==
    /\ files' = [files EXCEPT ![path] = s.content]
    /\ io' = io \cup (IF s.wrote THEN {"output_file"} ELSE {})
    /\ saved' = Append(saved, SaveEntry(path, doc, files[path], s))

\* main() after save(): success returns, failure is exit(1); the SchemaError
\* of validate is caught nowhere
AfterSave(s) ==
    IF s.raised
    THEN Raise(IF s.validate = "raise" THEN "validate" ELSE "write_json")
    ELSE Exit(IF s.ret THEN 0 ELSE 1)

\* fetch_congress.main after fetch_all
CongressMain ==
    /\ pc = "fetched" /\ domain = "congress"
    /\ IF data.transactions # <<>>
       THEN \E outcome \in WriteOutcomes :
               LET s == CongressSave(data, schemas, files[OutputPath(domain)], outcome)
               IN  Saving(OutputPath(domain), data, s) /\ AfterSave(s)
       ELSE Exit(1) /\ UNCHANGED <<files, io, saved>>
    /\ UNCHANGED <<call, domain, env, schemas, config, fetched, data, cursor>>

\* fetch_macro.main after fetch_all: data["indicators"] is a dict of four
\* groups, which is true whatever the groups hold
MacroMain ==
    /\ pc = "fetched" /\ domain = "macro"
    /\ IF DOMAIN data.indicators # {}
       THEN \E outcome \in WriteOutcomes :
               LET s == MacroSave(data, schemas, files[OutputPath(domain)], outcome)
               IN  Saving(OutputPath(domain), data, s) /\ AfterSave(s)
       ELSE Exit(1) /\ UNCHANGED <<files, io, saved>>
    /\ UNCHANGED <<call, domain, env, schemas, config, fetched, data, cursor>>

\* fetch_insiders.main after fetch_all
InsiderMain ==
    /\ pc = "fetched" /\ domain = "insiders"
    /\ IF data.transactions # <<>>
       THEN \E outcome \in WriteOutcomes :
               LET s == InsiderSave(data, schemas, files[OutputPath(domain)], outcome)
               IN  Saving(OutputPath(domain), data, s) /\ AfterSave(s)
       ELSE Exit(1) /\ UNCHANGED <<files, io, saved>>
    /\ UNCHANGED <<call, domain, env, schemas, config, fetched, data, cursor>>

\* fetch_flows.main and fetch_sentiment.main after fetch_all
SampleMain ==
    /\ pc = "fetched" /\ domain \in {"flows", "sentiment"}
    /\ IF DOMAIN data # {}
       THEN \E outcome \in WriteOutcomes :
               LET s == WriteOnly(data, files[OutputPath(domain)], outcome)
               IN  Saving(OutputPath(domain), data, s) /\ AfterSave(s)
       ELSE Exit(1) /\ UNCHANGED <<files, io, saved>>
    /\ UNCHANGED <<call, domain, env, schemas, config, fetched, data, cursor>>

\* fetch_13f.main after fetch_all_priority_funds: an empty dict is exit(1)
Fund13FMain ==
    /\ pc = "fetch_funds"
    /\ cursor > Len(config.priority_ciks)
    /\ data' = fetched.funds
    /\ cursor' = 1
    /\ IF fetched.funds # <<>>
       THEN pc' = "save_funds" /\ UNCHANGED <<raisedBy, exitCode>>
       ELSE Exit(1)
    /\ UNCHANGED <<call, domain, env, io, schemas, config, files, fetched, saved>>

\* a loop that ends at the first fund that fails validation or writing
Fund13FSaveFund_Break ==
    /\ pc = "save_funds"
    /\ cursor <= Len(data)
    /\ LET fund_slug == data[cursor].key
           fund_data == data[cursor].value
           output_path == FundPath(fund_slug)
       IN  \E outcome \in WriteOutcomes :
              LET s == ValidateThenWrite(fund_data, "fund_13f", schemas,
                                         files[output_path], outcome)
              IN  /\ Saving(output_path, fund_data, s)
                  /\ IF s.raised
                     THEN Raise("validate") /\ UNCHANGED cursor
                     ELSE /\ cursor' = IF s.ret THEN cursor + 1 ELSE Len(data) + 1
                          /\ UNCHANGED <<pc, raisedBy, exitCode>>
    /\ UNCHANGED <<call, domain, env, schemas, config, fetched, data>>

\* one pass of the loop of Fund13FFetcher.save_all
Fund13FSaveFund ==
    /\ pc = "save_funds"
    /\ cursor <= Len(data)
    /\ LET fund_slug == data[cursor].key
           fund_data == data[cursor].value
           output_path == FundPath(fund_slug)
       IN  \E outcome \in WriteOutcomes :
              LET s == ValidateThenWrite(fund_data, "fund_13f", schemas,
                                         files[output_path], outcome)
              IN  /\ Saving(output_path, fund_data, s)
                  /\ IF s.raised
                     THEN Raise("validate") /\ UNCHANGED cursor
                     ELSE cursor' = cursor + 1 /\ UNCHANGED <<pc, raisedBy, exitCode>>
    /\ UNCHANGED <<call, domain, env, schemas, config, fetched, data>>

\* save_all returns all_success; fetch_13f.main exits on it
Fund13FMainExit ==
    /\ pc = "save_funds"
    /\ cursor > Len(data)
    /\ LET all_success == \A i \in 1..Len(saved) : saved[i].ret
       IN  Exit(IF all_success THEN 0 ELSE 1)
    /\ UNCHANGED <<call, domain, env, io, schemas, config, files, fetched, data, cursor, saved>>

Next ==
    \/ CongressInit \/ MacroInit \/ Fund13FInit \/ InsiderInit \/ SampleInit
    \/ CongressFetchHouse \/ CongressFetchSenate \/ CongressFetchAll
    \/ MacroFetchSymbol \/ MacroFetchAll
    \/ Fund13FFetchFund
    \/ InsiderFetchAll \/ FlowFetchAll \/ SentimentFetchAll
    \/ CongressMain \/ MacroMain \/ InsiderMain \/ SampleMain
    \/ Fund13FMain \/ Fund13FSaveFund \/ Fund13FMainExit

Spec == Init /\ [][Next]_vars

----------------------------------------------------------------------------
(* Helpers called on their own.  Each has a specification of its own: the   *)
(* initial states draw the arguments, the one action applies the function.  *)

runVars == <<domain, env, pc, io, schemas, config, files, fetched, data, cursor,
             saved, raisedBy, exitCode>>

\* no run of main() is in progress
NoRun ==
    /\ domain = "none" /\ env = <<>> /\ pc = "done" /\ io = {}
    /\ schemas = <<>> /\ config = NoConfig /\ files = <<>>
    /\ fetched = [anyOK |-> FALSE] /\ data = <<>> /\ cursor = 1
    /\ saved = <<>> /\ raisedBy = "none" /\ exitCode = -1

\* the call is about to be made
Calling(fn, args) == call = [fn |-> fn, args |-> args, returned |-> FALSE]

Pending(fn) == call.fn = fn /\ ~call.returned

Returned(fn) == call.fn = fn /\ call.returned

\* the call returns
Return(result) ==
    /\ call' = [fn |-> call.fn, args |-> call.args, returned |-> TRUE,
                result |-> result]
    /\ UNCHANGED runVars

\* latest reading of the UTC clock at a call of create_metadata
MaxClock == 3

\* largest total_count and extra count passed to create_metadata
MaxCount == 2

\* last_updated values a caller can pass: a time stamp of an earlier or the
\* same instant, or a text without the Z marker
CallerStamps == {get_timestamp(c) : c \in 0..MaxClock} \cup {<<0, "">>}

\* **kwargs of create_metadata: none, a count, a last_updated, both
MetadataKwargs ==
    {<<>>}
        \cup {[etf_count |-> n] : n \in 0..MaxCount}
        \cup {[last_updated |-> t] : t \in CallerStamps}
        \cup {[last_updated |-> t, etf_count |-> n] : t \in CallerStamps, n \in 0..MaxCount}

MetadataInit ==
    /\ NoRun
    /\ \E clock \in 1..MaxClock, total_count \in 0..MaxCount, kwargs \in MetadataKwargs :
          Calling("create_metadata",
                  [clock |-> clock, total_count |-> total_count, kwargs |-> kwargs])

\* metadata = create_metadata(total_count, **kwargs)
CreateMetadataCall ==
    /\ Pending("create_metadata")
    /\ Return(create_metadata(call.args.clock, call.args.total_count, call.args.kwargs))

MetadataNext == CreateMetadataCall

MetadataSpec == MetadataInit /\ [][MetadataNext]_vars

\* most words in a raw transaction type
MaxWords == 2

UpperCh(c) == IF IsLowerCh(c) THEN Ascii[Code(c) - (Code("a") - Code("A"))] ELSE c

\* str.upper() and str.capitalize(), to spell the inputs
Upper(s) == [i \in 1..Len(s) |-> UpperCh(s[i])]

Capitalize(s) == [i \in 1..Len(s) |-> IF i = 1 THEN UpperCh(s[i]) ELSE s[i]]

\* the words _normalize_transaction_type looks for
Keywords ==
    { <<"p","u","r","c","h","a","s","e">>, <<"b","u","y">>, <<"s","a","l","e">>,
      <<"s","e","l","l">>, <<"e","x","c","h","a","n","g","e">> }

\* what a raw type is made of: the keywords in three spellings, and pieces
\* that are no keyword but can join into one
TypeWords ==
    Keywords \cup {Upper(w) : w \in Keywords} \cup {Capitalize(w) : w \in Keywords}
        \cup { <<" ">>, <<"x">>, <<"s">>, <<"a","l","e">>, <<"(","F","u","l","l",")">> }

RECURSIVE Join(_)
Join(words) == IF words = <<>> THEN <<>> ELSE Head(words) \o Join(Tail(words))

\* raw type strings: up to MaxWords words written without a separator
TypeStrings == {Join(ws) : ws \in BoundedSeq(TypeWords, MaxWords)}

TypeInit ==
    /\ NoRun
    /\ \E raw \in TypeStrings :
          Calling("_normalize_transaction_type", [raw_type |-> Str(raw)])

\* self._normalize_transaction_type(raw_type)
NormalizeTypeCall ==
    /\ Pending("_normalize_transaction_type")
    /\ Return(_normalize_transaction_type(call.args.raw_type))

TypeNext == NormalizeTypeCall

TypeSpec == TypeInit /\ [][TypeNext]_vars

\* most pieces in a raw amount
MaxPieces == 3

\* what a raw amount is made of: figures with and without "$" and ",", a
\* negative figure, the range dash with and without blanks, and text that is
\* no number
AmountPieces ==
    { <<"$","1">>, <<"$","5",",","0">>, <<"7">>, <<"-","5">>,
      <<" ","-"," ">>, <<"-">>, <<" ">>, <<"x">>, <<"N","/","A">> }

\* raw amount strings: up to MaxPieces pieces written one after the other
AmountStrings == {Join(ps) : ps \in BoundedSeq(AmountPieces, MaxPieces)}

AmountInit ==
    /\ NoRun
    /\ \E raw \in AmountStrings :
          Calling("_parse_amount_range", [amount_str |-> Str(raw)])

\* amount_min, amount_max = self._parse_amount_range(amount_str)
ParseAmountCall ==
    /\ Pending("_parse_amount_range")
    /\ Return(_parse_amount_range(call.args.amount_str))

AmountNext == ParseAmountCall

AmountSpec == AmountInit /\ [][AmountNext]_vars

\* the keys _normalize_transaction reads from a raw record
RawKeys ==
    {"representative", "ticker", "sector", "type", "amount", "transaction_date",
     "disclosure_date", "ptr_link"}

\* a value the upstream can send under the key
RawValue(key) ==
    CASE key = "representative"   -> Str(<<"A">>)
      [] key = "ticker"           -> Str(<<"X","Y","Z">>)
      [] key = "sector"           -> Str(<<"T","e","c","h">>)
      [] key = "type"             -> Str(<<"S","a","l","e">>)
      [] key = "amount"           -> Str(<<"$","5","0">>)
      [] key = "transaction_date" -> Str(D0105)
      [] key = "disclosure_date"  -> Str(D0201)
      [] key = "ptr_link"         -> Str(<<"u">>)

\* raw records: every key is left out, null or set; the type can also be a
\* number, which no record survives
RawInputs ==
    { Obj([k \in present |-> IF k \in nulls THEN Null ELSE RawValue(k)]) :
          present \in SUBSET RawKeys, nulls \in SUBSET RawKeys }
        \cup { Obj([k \in present |-> IF k = "type" THEN Num(<<"5">>) ELSE RawValue(k)]) :
                  present \in {{"type"} \cup ks : ks \in SUBSET {"ticker", "amount"}} }

NormalizeInit ==
    /\ NoRun
    /\ \E raw_data \in RawInputs, chamber \in {"House", "Senate"} :
          Calling("_normalize_transaction", [raw_data |-> raw_data, chamber |-> chamber])

\* transaction = self._normalize_transaction(item, chamber)
NormalizeCall ==
    /\ Pending("_normalize_transaction")
    /\ Return(_normalize_transaction(call.args.raw_data, call.args.chamber))

NormalizeNext == NormalizeCall

NormalizeSpec == NormalizeInit /\ [][NormalizeNext]_vars

\* most pieces in a fund name
MaxNameParts == 3

\* what a fund name is made of: words, initials with dots, a word that opens
\* with a digit, signs, the blank
NameParts ==
    { <<"S","c","i","o","n">>, <<"D",".","E",".">>, <<"3","G">>, <<"L","P">>,
      <<"(">>, <<"-">>, <<" ">> }

\* fund names: up to MaxNameParts pieces written one after the other
NameStrings == {Join(ps) : ps \in BoundedSeq(NameParts, MaxNameParts)}

SlugInit ==
    /\ NoRun
    /\ \E fund_name \in NameStrings :
          Calling("_create_slug", [fund_name |-> fund_name])

\* fund_slug = self._create_slug(fund_name)
CreateSlugCall ==
    /\ Pending("_create_slug")
    /\ Return(_create_slug(call.args.fund_name))

\* self._create_slug(fund_slug): the slug handed back in as a name
CreateSlugOfSlugCall ==
    /\ Returned("_create_slug")
    /\ ~call.result.raised
    /\ "again" \notin DOMAIN call
    /\ call' = [fn |-> call.fn, args |-> call.args, returned |-> TRUE,
                result |-> call.result, again |-> _create_slug(call.result.slug)]
    /\ UNCHANGED runVars

SlugNext == CreateSlugCall \/ CreateSlugOfSlugCall

SlugSpec == SlugInit /\ [][SlugNext]_vars

\* example values the index can be computed with (hundredths): for each
\* input the example of the source, values that put its component score on
\* 0, 20, 40, 60, 80 and 100, and for the two clamped components values
\* beyond both ends
SentimentInputs ==
    [vix_value : {500, 1000, 1400, 1800, 1850, 2200, 2600, 3000, 4000},
     put_call_ratio : {25, 50, 70, 75, 90, 110, 130, 150, 200},
     market_momentum : {0, 20, 40, 60, 65, 80, 100},
     safe_haven_demand : {0, 20, 35, 40, 60, 80, 100}]

SentimentInit ==
    /\ NoRun
    /\ \E inputs \in SentimentInputs :
          Calling("calculate_fear_greed_index", inputs)

\* fear_greed = self.calculate_fear_greed_index()
FearGreedCall ==
    /\ Pending("calculate_fear_greed_index")
    /\ Return(calculate_fear_greed_index(call.args))

SentimentNext == FearGreedCall

SentimentSpec == SentimentInit /\ [][SentimentNext]_vars

\* longest key path of a lookup
MaxKeys == 2

\* utils.safe_get with any number of keys: the loop over keys, then the
\* test of the value it ends on
RECURSIVE safe_get_keys(_, _, _)
safe_get_keys(d, keys, default) ==
    IF keys = <<>>
    THEN (IF d.t = "null" THEN default ELSE d)
    ELSE IF IsDict(d)
         THEN safe_get_keys(IF Head(keys) \in DOMAIN d.v
                            THEN d.v[Head(keys)] ELSE default,
                            Tail(keys), default)
         ELSE default

\* the keys looked up
PathKeys == {"a", "b"}

KeyPaths == BoundedSeq(PathKeys, MaxKeys)

\* maps of the keys, any of them absent, onto the given values
MapsOnto(values) ==
    UNION { {Obj(f) : f \in [present -> values]} : present \in SUBSET PathKeys }

\* values that hold no others: a number and null
Leaves == {Num(<<"1">>), Null}

\* structures nested two maps deep
Nested == LET inner == Leaves \cup MapsOnto(Leaves)
          IN  inner \cup MapsOnto(inner)

\* defaults of a call: None, a number, the empty map of
\* fetch_13f.py line 29, and a map that has one of the keys
Defaults == {Null, Num(<<"0">>), Obj(<<>>), Obj([b |-> Num(<<"9">>)])}

SafeGetInit ==
    /\ NoRun
    /\ \E d \in Nested, keys \in KeyPaths, default \in Defaults :
          Calling("safe_get", [data |-> d, keys |-> keys, default |-> default])

\* safe_get(data, *keys, default=default)
SafeGetCall ==
    /\ Pending("safe_get")
    /\ Return(safe_get_keys(call.args.data, call.args.keys, call.args.default))

SafeGetNext == SafeGetCall

SafeGetSpec == SafeGetInit /\ [][SafeGetNext]_vars

----------------------------------------------------------------------------
(* Properties *)

Entries == {saved[i] : i \in 1..Len(saved)}

\* the records of a response that normalise, normalised, in response order
ExpectedNormalized(records, chamber) ==
    LET normalised == [i \in 1..Len(records) |-> _normalize_transaction(records[i], chamber)]
        Kept(x) == ~IsNone(x)
    IN  SelectSeq(normalised, Kept)

\* C1: in every validating save (Congress, Macro, Insiders, each fund of 13F
\* save_all) a document for which validate returned false is never handed to
\* write_json: the save fails, the file at its path is what it was, and the
\* run does not exit with 0.
C1_RejectedNeverWritten ==
    \A e \in Entries :
        e.validate = "false" =>
            /\ ~e.wrote
            /\ ~e.ret
            /\ files[e.path] = e.prior
            /\ pc = "done" => exitCode # 0

\* C1 witness: a 13F run in which one fund was rejected by the schema and
\* another fund was written.
C1_Witness ==
    /\ domain = "fund_13f" /\ pc = "done"
    /\ \E e1, e2 \in Entries : e1.validate = "false" /\ e2.wrote /\ e2.ret

\* C2: validate of a schema name that is not registered (also when the schema
\* directory was absent at load) returns false for every document: it never
\* returns true and never raises.
C2_UnregisteredFailsClosed ==
    /\ \A e \in Entries :
          (e.schema # "none" /\ e.schema \notin DOMAIN schemas) =>
              e.validate = "false" /\ raisedBy # "validate"
    /\ pc \in {"fetched", "save_funds"} =>
          \A n \in (SchemaNames \cup {"flows", "sentiment"}) \ DOMAIN schemas :
              \A d \in (IF pc = "fetched" THEN {data} ELSE {data[i].value : i \in 1..Len(data)}) :
                  validate(d, n, schemas) = "false"

\* C2 witness: a save whose schema lookup missed because config/schemas did
\* not exist when the validator was built.
C2_Witness ==
    /\ ~env.schemaDir.exists
    /\ pc = "done"
    /\ \E e \in Entries : e.schema = "congress" /\ e.validate = "false"

FetchWrappers ==
    {"fetch_house_transactions", "fetch_senate_transactions", "fetch_yahoo_quote",
     "fetch_yahoo_history", "fetch_fund_13f"}

C4_NormalizeLoopKeepsTheRest ==
    /\ (domain = "congress" /\ "house" \in DOMAIN fetched /\ ~fetched.houseReply.error)
          => fetched.house = ExpectedNormalized(fetched.houseReply.records, "House")
    /\ (domain = "congress" /\ "senate" \in DOMAIN fetched /\ ~fetched.senateReply.error)
          => fetched.senate = ExpectedNormalized(fetched.senateReply.records, "Senate")

\* C4 witness: a House response whose first record fails normalisation and
\* whose second record was kept.
C4_Witness ==
    /\ domain = "congress" /\ "house" \in DOMAIN fetched
    /\ Len(fetched.houseReply.records) = 2
    /\ IsNone(_normalize_transaction(fetched.houseReply.records[1], "House"))
    /\ Len(fetched.house) = 1
    /\ fetched.house[1] = _normalize_transaction(fetched.houseReply.records[2], "House")

\* the run produced no data: no external fetch of the run returned anything
TotalFailure == ~fetched.anyOK

\* at least one validation or write of the run failed
PartialFailure == \E e \in Entries : e.validate = "false" \/ (e.wrote /\ ~e.ret)

\* C5: main exits with 0 only on full success, and with a non-zero code on
\* total failure (no fetch produced data) and on partial failure (a
\* validation or a write failed).
C5_ExitCodeContract ==
    pc = "done" =>
        /\ exitCode = 0 => (~TotalFailure /\ ~PartialFailure /\ raisedBy = "none")
        /\ TotalFailure => exitCode # 0
        /\ PartialFailure => exitCode # 0

\* C6: no exception propagates out of main: every run ends by returning or by
\* an explicit exit code.
C6_NoUncaughtException == raisedBy = "none"

\* C7: with SEC_EDGAR_USER_AGENT unset or empty the 13F and Insiders fetchers
\* fail in their constructor and the run issues no network request.
C7_NoNetworkWithoutCredential ==
    (domain \in SecDomains /\ env.secret \in {"unset", "empty"}) =>
        /\ "network" \notin io
        /\ pc \in {"start", "done"}
        /\ pc = "done" => raisedBy \in {"get_secret", "_load_schemas"}

\* C7 witness: a 13F run ended by get_secret with the variable unset.
C7_Witness ==
    /\ domain = "fund_13f" /\ env.secret = "unset"
    /\ pc = "done" /\ raisedBy = "get_secret"

\* C8 as claimed: the credential error is raised before any I/O of the run,
\* reads of the configuration and schema files included.
C8_RaisedBeforeAnyIO == raisedBy = "get_secret" => io = {}

\* C8 amended: the credential error is raised before any network or
\* output-file access, but after the schema directory was read and, in the
\* 13F fetcher, after the configuration file was read.
C8_RaisedBeforeNetworkAndOutput ==
    raisedBy = "get_secret" =>
        /\ io \cap {"network", "output_file"} = {}
        /\ \A p \in AllPaths : files[p] = OldArtifact
        /\ "schema_dir" \in io
        /\ domain = "fund_13f" => "config_file" \in io

\* C8 witness: an Insiders run ended by get_secret after the schema files
\* were read.
C8_Witness ==
    /\ domain = "insiders" /\ raisedBy = "get_secret"
    /\ "schema_file" \in io

\* C9: write_json never raises: every failure (mkdir, open, dump, stat) is a
\* return value of false, and it returns true only when the path holds the
\* whole document.
C9_WriteNeverRaises ==
    /\ raisedBy # "write_json"
    /\ \A e \in Entries :
          e.wrote =>
              /\ e.ret <=> e.outcome = "ok"
              /\ e.ret => files[e.path] = Full(e.doc)

\* C9 witness: a write whose stat failed after the dump and that returned
\* false to a main that exited with 1.
C9_Witness ==
    /\ pc = "done" /\ exitCode = 1 /\ raisedBy = "none"
    /\ \E e \in Entries : e.wrote /\ e.outcome = "stat_error" /\ ~e.ret

\* C10: a write is all-or-nothing: after a write_json that returned false the
\* path holds what it held before the call, after one that returned true it
\* holds the document of the call.
C10_AllOrNothing ==
    \A e \in Entries :
        e.wrote => files[e.path] = (IF e.ret THEN Full(e.doc) ELSE e.prior)

\* the run holds the document fetch_all returned
Assembled == pc \in {"fetched", "done"} /\ DOMAIN data # {}

\* C11: in every assembled document metadata.total_count is the number of
\* records of its payload: the transactions of Congress and Insiders, the
\* etf_flows and options rows of Flows, the holdings of each 13F fund.
C11_TotalCountIsPayloadLength ==
    /\ (Assembled /\ domain \in {"congress", "insiders"}) =>
          data.metadata.total_count = Len(data.transactions)
    /\ (Assembled /\ domain = "flows") =>
          data.metadata.total_count = Len(data.etf_flows) + Len(data.options)
    /\ (domain = "fund_13f" /\ "funds" \in DOMAIN fetched) =>
          \A i \in 1..Len(fetched.funds) :
              fetched.funds[i].value.metadata.total_count
                  = Len(fetched.funds[i].value.holdings)

\* the output records of one chamber
OfChamber(transactions, chamber) ==
    {i \in 1..Len(transactions) : transactions[i].chamber = chamber}

\* C12: in every Congress document house_count is the number of output
\* records with chamber House, senate_count the number with chamber Senate,
\* and total_count = house_count + senate_count = the length of transactions;
\* one House record and no Senate record give 1, 1, 0.
C12_ChamberCounts ==
    (Assembled /\ domain = "congress") =>
        LET metadata == data.metadata
        IN  /\ metadata.house_count = Cardinality(OfChamber(data.transactions, "House"))
            /\ metadata.senate_count = Cardinality(OfChamber(data.transactions, "Senate"))
            /\ metadata.total_count = metadata.house_count + metadata.senate_count
            /\ metadata.total_count = Len(data.transactions)
            /\ (Len(fetched.house) = 1 /\ fetched.senate = <<>>) =>
                  /\ metadata.total_count = 1
                  /\ metadata.house_count = 1
                  /\ metadata.senate_count = 0

\* C12 witness: a Congress document of one House record and no Senate record,
\* the Senate endpoint having failed.
C12_Witness ==
    /\ Assembled /\ domain = "congress"
    /\ Len(fetched.house) = 1 /\ fetched.senateReply.error
    /\ data.metadata.total_count = 1
    /\ data.metadata.house_count = 1
    /\ data.metadata.senate_count = 0

\* C12 witness of the general case: both chambers contribute records.
C12_BothChambers ==
    /\ Assembled /\ domain = "congress"
    /\ data.metadata.house_count = 2 /\ data.metadata.senate_count = 1

\* C13: in the result of every create_metadata(total_count, **extra), a call
\* whose extra holds the key last_updated included, last_updated is the UTC
\* time of that call with its trailing Z, never the caller's value, and every
\* other extra key is in the result with the caller's value.
C13_TimestampIsCallTime ==
    Returned("create_metadata") =>
        LET kwargs == call.args.kwargs
            metadata == call.result
        IN  /\ metadata.last_updated = get_timestamp(call.args.clock)
            /\ \A k \in DOMAIN kwargs \ {"last_updated"} :
                  k \in DOMAIN metadata /\ metadata[k] = kwargs[k]

\* how often x occurs in the sequence
Occurrences(seq, x) == Cardinality({i \in 1..Len(seq) : seq[i] = x})

\* b is a permutation of a
IsPermutation(a, b) ==
    /\ Len(a) = Len(b)
    /\ \A i \in 1..Len(a) : Occurrences(a, a[i]) = Occurrences(b, a[i])

\* a >= b between two dates of one document
DateGeq(a, b) ==
    IF a.t = "str" /\ b.t = "str" THEN ~StrLess(a.v, b.v)
    ELSE a.t = b.t /\ DigitsValue(a.v) >= DigitsValue(b.v)

\* descending by date, the empty date of an undated record after every date
DescendingByDate(transactions) ==
    /\ \A i \in 1..(Len(transactions) - 1) :
          DateGeq(transactions[i].date, transactions[i + 1].date)
    /\ \A i, j \in 1..Len(transactions) :
          (i < j /\ transactions[i].date = Str(<<>>)) =>
              transactions[j].date = Str(<<>>)

\* C14: the transactions of a Congress or Insiders document are a permutation
\* of the concatenated sub-source records in descending order of date: each
\* date is >= the next under string comparison, and the records with a
\* missing or empty date come after all dated ones.
C14_SortedDescendingByDate ==
    /\ (Assembled /\ domain = "congress") =>
          /\ IsPermutation(fetched.house \o fetched.senate, data.transactions)
          /\ DescendingByDate(data.transactions)
    /\ (Assembled /\ domain = "insiders") =>
          /\ IsPermutation(fetched.transactions, data.transactions)
          /\ DescendingByDate(data.transactions)

\* C14 witness: a Congress document whose newest record came from the Senate,
\* behind it an older record, last an undated record that the House response
\* listed first.
C14_Witness ==
    /\ Assembled /\ domain = "congress"
    /\ Len(data.transactions) = 3
    /\ data.transactions # fetched.house \o fetched.senate
    /\ data.transactions[1].chamber = "Senate"
    /\ data.transactions[1].date = Str(D0201)
    /\ data.transactions[2].date = Str(D0105)
    /\ data.transactions[3].date = Str(<<>>)
    /\ fetched.house[1].date = Str(<<>>)

\* word occurs in s when case is ignored
Mentions(s, word) ==
    \E i \in 0..(Len(s) - Len(word)) :
        \A j \in 1..Len(word) : LowerCh(s[i + j]) = LowerCh(word[j])

\* C15: _normalize_transaction_type returns for every string, without
\* raising, one of purchase, sale, exchange: purchase when the string
\* mentions purchase or buy in any case, else sale when it mentions sale or
\* sell, else exchange when it mentions exchange, else purchase (so for the
\* empty string).
C15_TypeNormalisationTotal ==
    Returned("_normalize_transaction_type") =>
        LET raw == call.args.raw_type.v
            result == call.result
        IN  /\ ~result.raised
            /\ result.value \in {"purchase", "sale", "exchange"}
            /\ result.value =
                  (IF Mentions(raw, <<"p","u","r","c","h","a","s","e">>)
                      \/ Mentions(raw, <<"b","u","y">>)
                   THEN "purchase"
                   ELSE IF Mentions(raw, <<"s","a","l","e">>)
                           \/ Mentions(raw, <<"s","e","l","l">>)
                   THEN "sale"
                   ELSE IF Mentions(raw, <<"e","x","c","h","a","n","g","e">>)
                   THEN "exchange"
                   ELSE "purchase")
            /\ raw = <<>> => result.value = "purchase"

\* C15 witness: "ExchangeSELL", which mentions exchange and sell, is a sale.
C15_Witness ==
    /\ Returned("_normalize_transaction_type")
    /\ call.args.raw_type.v = <<"E","x","c","h","a","n","g","e","S","E","L","L">>
    /\ call.result.value = "sale"

\* C15 witness of the default: the empty string is a purchase.
C15_EmptyIsPurchase ==
    /\ Returned("_normalize_transaction_type")
    /\ call.args.raw_type.v = <<>>
    /\ call.result.value = "purchase"

\* the places where s reads as two numbers around a dash
RangeDashes(s) ==
    {i \in Positions(s, "-") :
        /\ ParseFloat(Strip(SubSeq(s, 1, i - 1))).ok
        /\ ParseFloat(Strip(SubSeq(s, i + 1, Len(s)))).ok}

\* what the amount text stands for once "$" and "," are gone: one number of
\* either sign, two numbers around a dash, or neither
AmountMeaning(raw) ==
    LET s == Without(Without(raw, "$"), ",")
        single == ParseFloat(Strip(s))
    IN  IF single.ok THEN <<single.value, single.value>>
        ELSE IF RangeDashes(s) # {}
        THEN LET i == Min(RangeDashes(s))
             IN  <<ParseFloat(Strip(SubSeq(s, 1, i - 1))).value,
                   ParseFloat(Strip(SubSeq(s, i + 1, Len(s)))).value>>
        ELSE <<0, 0>>

\* C16: _parse_amount_range returns for every string, "$" and "," removed,
\* (a, b) when the string is the two-sided "a - b", (v, v) when it is one
\* number v of either sign, and (0, 0) when it is neither.
C16_AmountParsing ==
    Returned("_parse_amount_range") =>
        call.result = AmountMeaning(call.args.amount_str.v)

\* the fields of a normalised record that are copied from a raw key, with
\* the default of each
CopiedFields ==
    { [field |-> "person", key |-> "representative",
       default |-> Str(<<"U","n","k","n","o","w","n">>)],
      [field |-> "ticker", key |-> "ticker", default |-> Str(<<"N","/","A">>)],
      [field |-> "sector", key |-> "sector",
       default |-> Str(<<"U","n","k","n","o","w","n">>)],
      [field |-> "amount_range", key |-> "amount", default |-> Str(<<"N","/","A">>)],
      [field |-> "date", key |-> "transaction_date", default |-> Str(<<>>)],
      [field |-> "disclosure_date", key |-> "disclosure_date", default |-> Str(<<>>)],
      [field |-> "link", key |-> "ptr_link", default |-> Str(<<>>)] }

\* the raw record omits the key or holds null under it
Lacks(raw_data, key) == key \notin DOMAIN raw_data.v \/ raw_data.v[key].t = "null"

\* C17: every record _normalize_transaction produces has the eleven fields
\* person, chamber, ticker, sector, transaction_type, amount_range, date,
\* disclosure_date, link, amount_min, amount_max; a field whose raw key is
\* omitted or null holds its default; transaction_type is one of purchase,
\* sale, exchange.
C17_AllFieldsWithDefaults ==
    (Returned("_normalize_transaction") /\ ~IsNone(call.result)) =>
        LET raw_data == call.args.raw_data
            transaction == call.result
        IN  /\ DOMAIN transaction =
                  {"person", "chamber", "ticker", "sector", "transaction_type",
                   "amount_range", "date", "disclosure_date", "link", "amount_min",
                   "amount_max"}
            /\ transaction.chamber = call.args.chamber
            /\ transaction.transaction_type \in {"purchase", "sale", "exchange"}
            /\ \A c \in CopiedFields :
                  Lacks(raw_data, c.key) => transaction[c.field] = c.default
            /\ Lacks(raw_data, "type") => transaction.transaction_type = "purchase"
            /\ Lacks(raw_data, "amount") =>
                  transaction.amount_min = 0 /\ transaction.amount_max = 0

\* C17 witness: a raw record that holds null under representative and type
\* and nothing else becomes a record of defaults.
C17_Witness ==
    /\ Returned("_normalize_transaction") /\ ~IsNone(call.result)
    /\ call.args.raw_data = Obj([k \in {"representative", "type"} |-> Null])
    /\ call.result.person = Str(<<"U","n","k","n","o","w","n">>)
    /\ call.result.transaction_type = "purchase"
    /\ call.result.date = Str(<<>>)
    /\ call.result.amount_max = 0

\* the letters and digits of s, in order
Alnums(s) == SelectSeq(s, IsAlnum)

\* C18: every slug consists of lowercase letters and digits only, namely the
\* letters and digits of the first whitespace-delimited token of the name in
\* lower case, and deriving a slug from a slug returns it unchanged.
C18_SlugIdempotent ==
    (Returned("_create_slug") /\ ~call.result.raised) =>
        LET slug == call.result.slug
            token == Alnums(FirstToken(call.args.fund_name))
        IN  /\ \A i \in 1..Len(slug) : IsLowerCh(slug[i]) \/ IsDigit(slug[i])
            /\ Len(slug) = Len(token)
            /\ \A i \in 1..Len(slug) : slug[i] = LowerCh(token[i])
            /\ "again" \in DOMAIN call =>
                  ~call.again.raised /\ call.again.slug = slug

\* C19: the sentiment score is the sum of the four component scores weighted
\* 0.30, 0.25, 0.25, 0.20, weights that sum to 1.0; its band is decided by
\* inclusive upper bounds: <= 20 Extreme Fear / contrarian_buy, <= 40 Fear /
\* cautious, <= 60 Neutral / neutral, <= 80 Greed / cautious, above 80
\* Extreme Greed / contrarian_sell; vix 18.5, put/call 0.75, momentum 0.65,
\* safe haven 0.35 give the score 65.25, Greed, cautious.
C19_WeightedScoreAndBands ==
    Returned("calculate_fear_greed_index") =>
        LET result == call.result
            parts == result.components
            score == result.score
            band == <<result.classification, result.signal>>
        IN  /\ weights = [vix |-> 30, put_call |-> 25, momentum |-> 25,
                          safe_haven |-> 20]
            /\ weights.vix + weights.put_call + weights.momentum
                    + weights.safe_haven = 100
            /\ score = 30 * parts.vix + 25 * parts.put_call_ratio
                          + 25 * parts.market_momentum + 20 * parts.safe_haven_demand
            /\ score <= 200000 <=> band = <<"Extreme Fear", "contrarian_buy">>
            /\ (200000 < score /\ score <= 400000) <=> band = <<"Fear", "cautious">>
            /\ (400000 < score /\ score <= 600000) <=> band = <<"Neutral", "neutral">>
            /\ (600000 < score /\ score <= 800000) <=> band = <<"Greed", "cautious">>
            /\ 800000 < score <=> band = <<"Extreme Greed", "contrarian_sell">>
            /\ call.args = SampleSentiment =>
                  score = 652500 /\ band = <<"Greed", "cautious">>

\* C19 witness: the example values of the source give the score 65.25, which
\* the document carries as index 65.2, in the band Greed / cautious.
C19_Witness ==
    /\ Returned("calculate_fear_greed_index")
    /\ call.args = SampleSentiment
    /\ call.result.components =
          [vix |-> 5750, put_call_ratio |-> 7500, market_momentum |-> 6500,
           safe_haven_demand |-> 6500]
    /\ call.result.score = 652500
    /\ call.result.index = 652
    /\ call.result.classification = "Greed"
    /\ call.result.signal = "cautious"

\* C19 witness of an inclusive bound: a score of exactly 20 is Extreme Fear.
C19_OnTheBound ==
    /\ Returned("calculate_fear_greed_index")
    /\ call.result.score = 200000
    /\ call.result.classification = "Extreme Fear"

\* fetch_yahoo_quote returned a quote for the indicator in this run
QuoteFetched(our_name) ==
    our_name \in DOMAIN fetched.quotes /\ ~IsNone(fetched.quotes[our_name])

\* C20: in every Macro document yields.spread_2s10s is present exactly when
\* both the US2Y and the US10Y quote were fetched in this run, and it is then
\* the US10Y value minus the US2Y value.
C20_SpreadIffBothLegs ==
    (Assembled /\ domain = "macro") =>
        LET yields == data.indicators.yields
        IN  /\ "spread_2s10s" \in DOMAIN yields
                  <=> (QuoteFetched("US2Y") /\ QuoteFetched("US10Y"))
            /\ "spread_2s10s" \in DOMAIN yields =>
                  yields["spread_2s10s"]
                      = fetched.quotes["US10Y"].price - fetched.quotes["US2Y"].price

\* C20 witness: a Macro document of an inverted curve, US2Y at 3 and US10Y at
\* 1, with the spread -2.
C20_Witness ==
    /\ Assembled /\ domain = "macro"
    /\ QuoteFetched("US2Y") /\ fetched.quotes["US2Y"].price = 3
    /\ QuoteFetched("US10Y") /\ fetched.quotes["US10Y"].price = 1
    /\ data.indicators.yields["spread_2s10s"] = -2

\* C20 witness of the other direction: a Macro document with the US10Y quote
\* and without the US2Y quote carries no spread.
C20_OneLeg ==
    /\ Assembled /\ domain = "macro"
    /\ QuoteFetched("US10Y") /\ ~QuoteFetched("US2Y")
    /\ DOMAIN data.indicators.yields = {"US10Y"}

\* the fund at position i of funds_data passed the loop of save_all with
\* success: validated and written
FundSaved(i) == saved[i].validate = "true" /\ saved[i].wrote /\ saved[i].ret

\* C21: save_all passes every fund of the map whatever happened to the funds
\* before it: while the loop runs every earlier fund has its entry, failed
\* or not, and when save_all has returned every fund was validated (and,
\* when valid, written) under its own path; it returns true, and main exits
\* with 0, exactly when every fund validated and was written.  (A schema
\* that is no JSON Schema makes validate raise, which is C6.)
C21_SaveAllPassesEveryFund ==
    /\ pc = "save_funds" => Len(saved) = cursor - 1
    /\ (domain = "fund_13f" /\ pc = "done" /\ raisedBy = "none" /\ DOMAIN data # {}) =>
          /\ Len(saved) = Len(data)
          /\ \A i \in 1..Len(data) :
                /\ saved[i].path = FundPath(data[i].key)
                /\ saved[i].doc = data[i].value
                /\ saved[i].validate \in {"true", "false"}
                /\ saved[i].wrote <=> saved[i].validate = "true"
          /\ exitCode = 0 <=> \A i \in 1..Len(data) : FundSaved(i)

\* C21 witness: the first of two funds failed validation, the second was
\* validated and written, and the run exited with 1.
C21_Witness ==
    /\ domain = "fund_13f" /\ pc = "done" /\ raisedBy = "none"
    /\ Len(data) = 2 /\ Len(saved) = 2
    /\ saved[1].validate = "false"
    /\ FundSaved(2) /\ files[saved[2].path] = Full(data[2].value)
    /\ exitCode = 1

\* C21 witness of a failed write: the first fund's write failed, the second
\* fund was written.
C21_AfterFailedWrite ==
    /\ domain = "fund_13f" /\ pc = "done" /\ raisedBy = "none"
    /\ Len(saved) = 2
    /\ saved[1].wrote /\ ~saved[1].ret
    /\ FundSaved(2)
    /\ exitCode = 1

\* C22: the 13F run keeps every fund whose fetch succeeded under a key of
\* its own, to be written to its own data/funds/<slug>.json: the map handed
\* to save_all has as many documents as funds were fetched, one for each of
\* them, and no fund's document was replaced by another fund's.
C22_OneArtifactPerFund ==
    (domain = "fund_13f" /\ "funds" \in DOMAIN fetched) =>
        LET funds == fetched.funds
        IN  /\ Len(funds) = Len(fetched.succeeded)
            /\ \A i \in 1..Len(fetched.succeeded) :
                  \E j \in 1..Len(funds) :
                      funds[j].value.fund_info.cik = fetched.succeeded[i]
            /\ \A i, j \in 1..Len(funds) :
                  FundPath(funds[i].key) = FundPath(funds[j].key) => i = j

\* what is stored in d at the end of the key path; Missing when a key of
\* the path is absent or a value on the way is not a map
Missing == [t |-> "missing", v |-> <<>>]

RECURSIVE AtPath(_, _)
AtPath(d, keys) ==
    IF keys = <<>> THEN d
    ELSE IF IsDict(d) /\ Head(keys) \in DOMAIN d.v
         THEN AtPath(d.v[Head(keys)], Tail(keys))
         ELSE Missing

\* C23: safe_get returns the caller's default when a key of the path is
\* missing, a value on the way is not a mapping or the value at the end is
\* null, whatever the default is (a mapping included); otherwise it returns
\* the value found at the end of the path.
C23_DefaultOrValueAtPath ==
    Returned("safe_get") =>
        LET found == AtPath(call.args.data, call.args.keys)
        IN  call.result = IF found.t \in {"missing", "null"}
                          THEN call.args.default ELSE found

====
